---------------------------- MODULE Spec2Model ----------------------------
(***************************************************************************)
(* Model of the AudioSocket bridge (src/main.go): the Listener, one Call   *)
(* Session per accepted connection (Handle), the voice-activity segmenter  *)
(* inside Handle's read loop, the utterance processor (handleInputAudio)   *)
(* and the playback relay (websocketSendReceive) with its process-wide     *)
(* cancellation handle wsCancel.                                           *)
(*                                                                         *)
(* Strings of the program are modelled as sequences of words, so that      *)
(* equality of strings and "contains as a substring" are both computable.  *)
(* The Cyrillic denylist entries of main.go:239 are transliterated, since  *)
(* module text is ASCII.                                                   *)
(***************************************************************************)
EXTENDS Integers, Sequences, FiniteSets, TLC

(***************************************************************************)
(* Bounds of the model (not program constants).                            *)
(***************************************************************************)
\* number of frames the peer of the freely explored call may send
FreeLen == 8
\* number of freely chosen frames that follow the scripted speech run
TailLen == 8
\* binary chunks the synthesis service delivers to one relay
MaxChunks == 2
\* relays started in one run of the process
MaxRelays == 3
\* speech frames of 960 bytes in a scripted utterance (14 * 480 samples is the
\* least multiple of 480 that reaches 0.40 s at the gate's rate)
ScriptSpeech == 14
\* speech frames of 320 bytes in the utterance of the wire-format scenario
\* (20 frames of 20 ms are 0.40 s of 8 kHz audio)
WireSpeech == 20
\* greatest length of a byte sequence given to pcmToFloat32Array on its own
MaxPcmLen == 65

(***************************************************************************)
(* Program constants.                                                      *)
(***************************************************************************)
\* main.go:144  silenceThreshold := 5
silenceThreshold == 5
\* main.go:201  calculateAudioLength(buffer, 16000)
gateRate == 16000
\* main.go:203  if length < 0.40, as hundredths of a second
minLengthHundredths == 40

Calls == {1, 2}
Relays == 1..MaxRelays
\* main.go:409  the zero value of wsCancel
Nil == 0

(***************************************************************************)
(* Frames of the call protocol as the session sees them.  kind is the     *)
(* outcome of audiosocket.NextMessage: a frame kind, "eof" (clean end of   *)
(* stream) or "readerr" (any other decode failure).  len is the payload    *)
(* length in bytes, vad the answer vad.Process gives for the payload.      *)
(***************************************************************************)
Frame(k, l, v) == [kind |-> k, len |-> l, vad |-> v]
IdFrame == Frame("id", 16, "na")
HangupFrame == Frame("hangup", 0, "na")
ErrorFrame == Frame("error", 0, "na")
EofFrame == Frame("eof", 0, "na")
ReadErrFrame == Frame("readerr", 0, "na")
Speech(l) == Frame("slin", l, "active")
Silence(l) == Frame("slin", l, "inactive")
VadFail(l) == Frame("slin", l, "fail")

\* payload lengths vad.Process accepts at the rate Handle passes (16000 Hz):
\* 10, 20 or 30 ms of 16-bit samples; any other length makes it fail
ValidVadLens == {320, 640, 960}

\* what may arrive as the first frame of a connection
FirstFrames == {IdFrame, HangupFrame, ReadErrFrame, EofFrame, Speech(320)}
\* what may arrive in the read loop of the freely explored call
FreeFrames ==
  {HangupFrame, ErrorFrame, EofFrame, ReadErrFrame,
   Frame("slin", 0, "na"), Frame("slin", 321, "na"),
   Speech(320), Speech(960), Silence(320), VadFail(320), VadFail(6400)}

Rep(n, x) == [i \in 1..n |-> x]

(***************************************************************************)
(* Strings as sequences of words.                                          *)
(***************************************************************************)
\* main.go:239
excludedWords ==
  { <<"Prodolzhenie", "sleduet...">>,
    <<"Subtitry", "sdelal", "DimaTorzok">>,
    <<"Subtitry", "sozdaval", "DimaTorzok">> }

Hello == <<"hello">>
HiThere == <<"hi", "there">>
\* transcripts the transcription service may return
Transcripts ==
  { Hello,
    <<"Prodolzhenie", "sleduet...">>,
    <<"Subtitry", "sdelal", "DimaTorzok">>,
    <<"Prodolzhenie", "sleduet...", "da">> }
\* replies the model may return
Replies == { HiThere, <<"ok">> }

IsSubstring(s, t) ==
  \E i \in 0..(Len(t) - Len(s)) : SubSeq(t, i + 1, i + Len(s)) = s
IsProperSubstring(s, t) == IsSubstring(s, t) /\ s # t


(***************************************************************************)
(* State.                                                                  *)
(***************************************************************************)
VARIABLES
  stream,        \* per call: what the peer will still send, a sequence of
                 \* sets of admissible frames (one frame is drawn per read)
  answers,       \* what the external services may answer in this run:
                 \* [setup, proc], sets of outcomes (never changes)
  nread,         \* per call: frames read from the connection so far
  lastFrame,     \* per call: the frame read last (history)
  spoken,        \* per call: the sample counts of the frames the VAD called
                 \* speech since the last dispatch, in arrival order (history)
  quiet,         \* per call: the frames the VAD called silence since the
                 \* last speech frame (history)
  spc,           \* per call: position of Handle
  connOpen,      \* per call: the call connection is not yet closed
  inputAudioBuffer, \* per call: Handle's inputAudioBuffer, one entry (the
                 \* number of samples) per appended chunk
  silenceCount,  \* per call: Handle's silenceCount
  closed,        \* per call: the buffers handed to handleInputAudio, in order
  fx,            \* per call: the requests made to external services, in order
  llmChat,       \* per call: the messages of the model-side conversation of
                 \* the call's identifier, as the head of Handle left them
  sttSettings,   \* per call: Handle's *sttSettings, Nil before it is fetched
  llmSettings,   \* per call: Handle's *llmSettings, Nil before it is fetched
  sttSent,       \* per call: the settings sent with each transcription
                 \* request, in order (history)
  crashed,       \* the process has exited (log.Fatal) or panicked
  wsCancel,      \* main.go:409: the relay whose cancel function is stored
  nrelay,        \* relays started so far
  rpc,           \* per relay: position of the relay goroutine
  rcall,         \* per relay: the call whose connection it writes to
  rdata,         \* per relay: the control message it was started with
  rcancelled,    \* per relay: its context has been cancelled
  rsent,         \* per relay: its control message reached the synthesis service
  rgot,          \* per relay: binary chunks received from the synthesis stream
  connLog,       \* per call: audio frames written to the call connection
  rlate,         \* per relay: the frames it has written to the call connection
                 \* since its context was cancelled (history)
  CurrentChat,   \* ChatStore.CurrentChat (api/client.go:303)
  Messages,      \* ChatStore.Messages (api/client.go:304)
  Error,         \* ChatStore.Error (api/client.go:306)
  Model,         \* ChatStore.Settings.LLMSettings.Model, "nil" for a nil pointer
  apiLog,        \* the calls the store made to the chat API and the model
                 \* API, in order (history)
  returned       \* what each ChatStore.SendMessage call was given and how it
                 \* ended, in call order (history)

histVars == <<lastFrame, spoken, quiet>>
settingsVars == <<sttSettings, llmSettings, sttSent>>
sessVars == <<stream, answers, nread, histVars, spc, connOpen, inputAudioBuffer, silenceCount, closed, fx, llmChat, settingsVars>>
relayHist == <<rlate>>
relayVars == <<wsCancel, nrelay, rpc, rcall, rdata, rcancelled, rsent, rgot, connLog, relayHist>>
bridgeVars == <<sessVars, relayVars, crashed>>
storeVars == <<CurrentChat, Messages, Error, Model, apiLog, returned>>
vars == <<bridgeVars, storeVars>>

(***************************************************************************)
(* Pure functions of main.go.                                              *)
(***************************************************************************)
\* faulty variant: the check of the length left out
pcmToFloat32ArrayFails_unchecked(len) == FALSE

\* pcmToFloat32Array: an error and nil for an odd length (main.go:319-321),
\* else one sample per 2 bytes
pcmToFloat32ArrayFails(len) == len % 2 # 0
pcmToFloat32ArrayLen(len) == IF pcmToFloat32ArrayFails(len) THEN 0 ELSE len \div 2

RECURSIVE totalSamples(_)
totalSamples(buffer) ==
  IF buffer = <<>> THEN 0 ELSE Head(buffer) + totalSamples(Tail(buffer))

\* faulty variant: the gate measured at the 8000 Hz of the wire format
lengthBelowGate_8k(buffer) ==
  totalSamples(buffer) * 100 < minLengthHundredths * 8000

\* calculateAudioLength(buffer, 16000) < 0.40, in exact arithmetic: the
\* quotient of two integers below 2^53 is rounded to the nearest double, and
\* no quotient n/16000 other than 6400/16000 rounds to the double 0.40
lengthBelowGate(buffer) ==
  totalSamples(buffer) * 100 < minLengthHundredths * gateRate

\* faulty variant: the denylist matched by containment (strings.Contains)
isExcluded_contains(transcription) ==
  \E word \in excludedWords : IsSubstring(word, transcription)

\* main.go:240-245: the transcript equals an entry of excludedWords
isExcluded(transcription) == \E word \in excludedWords : transcription = word

\* faulty variant: the utterance closed when the count reaches the threshold
closesUtterance_ge(count, buffer) == count >= silenceThreshold /\ Len(buffer) > 0

\* main.go:183-184: the silence run closes the utterance
closesUtterance(count, buffer) == count > silenceThreshold /\ Len(buffer) > 0

\* faulty variant: the control message built with another language
relayData_en(reply) ==
  [message |-> reply, language |-> "en", speedMilli |-> 1000, awaitMilli |-> 15]

\* main.go:274-279: the control message of the relay (numbers in thousandths)
relayData(reply) ==
  [message |-> reply, language |-> "ru", speedMilli |-> 1000, awaitMilli |-> 15]

(***************************************************************************)
(* The utterance processor, handleInputAudio (main.go:195-284).  An        *)
(* outcome o fixes what the external services answer: o.stt and o.llm are  *)
(* [ok, text], o.user and o.asst tell whether API.SendMessage succeeds.    *)
(* procEffects is the sequence of requests the function makes, in order;   *)
(* the entry of a relay start carries the relay it starts.                 *)
(***************************************************************************)
\* status is the HTTP status of the response, 0 where the model keeps none
Fx(op, arg, res, ok) == [op |-> op, arg |-> arg, res |-> res, ok |-> ok, status |-> 0]

Answer(ok, text) == [ok |-> ok, text |-> text]
LlmAnswers == {Answer(FALSE, <<>>)} \cup {Answer(TRUE, t) : t \in Replies}

\* What the transcription request may meet: a transport failure (client.Do
\* returns an error), or a response with a status and a body.  A body is
\* text that is not JSON, JSON without a string field "transcription", or
\* JSON with that field.
\* net/http's StatusOK, as chat.go:114 compares with it
StatusOK == 200
\* the statuses the services answer with
Statuses == {StatusOK, 500}
Body(form, text) == [form |-> form, text |-> text]
SttResponse(transport, status, body) ==
  [transport |-> transport, status |-> status, body |-> body]
SttResponses ==
  {SttResponse(FALSE, 0, Body("none", <<>>))}
    \cup {SttResponse(TRUE, StatusOK, Body("transcription", t)) : t \in Transcripts}
    \cup {SttResponse(TRUE, st, Body("nofield", <<>>)) : st \in Statuses}
    \cup {SttResponse(TRUE, st, Body(form, <<>>)) :
            st \in Statuses \ {StatusOK}, form \in {"notjson"}}
    \cup {SttResponse(TRUE, st, Body("transcription", Hello)) : st \in Statuses \ {StatusOK}}

\* main.go:380-406: the error and the transcript sendFloat32ArrayToServer
\* returns for a response; resp.StatusCode is not read
sendFloat32ArrayToServer(resp) ==
  IF ~resp.transport THEN Answer(FALSE, <<>>)
  ELSE IF resp.body.form = "notjson" THEN Answer(FALSE, <<>>)
  ELSE IF resp.body.form # "transcription" THEN Answer(FALSE, <<>>)
  ELSE Answer(TRUE, resp.body.text)

Outcomes == [stt : SttResponses, user : BOOLEAN, llm : LlmAnswers, asst : BOOLEAN]

\* faulty variant: the error of the user append (main.go:247) not checked
procEffects_userErrorIgnored(buffer, o) ==
  IF lengthBelowGate(buffer) THEN <<>>
  ELSE LET stt == sendFloat32ArrayToServer(o.stt)
           e1 == <<[Fx("stt", buffer, stt.text, stt.ok) EXCEPT !.status = o.stt.status]>> IN
  IF ~stt.ok \/ isExcluded(stt.text) THEN e1
  ELSE LET e2 == Append(e1, Fx("user", stt.text, <<>>, o.user))
           e3 == Append(e2, Fx("llm", stt.text, o.llm.text, o.llm.ok)) IN
  IF ~o.llm.ok THEN e3
  ELSE LET e4 == Append(e3, Fx("assistant", o.llm.text, <<>>, o.asst)) IN
  IF ~o.asst THEN e4
  ELSE Append(e4, Fx("relay", o.llm.text, <<nrelay + 1>>, TRUE))

\* faulty variant: the error of the assistant append (main.go:269) not checked
procEffects_asstErrorIgnored(buffer, o) ==
  IF lengthBelowGate(buffer) THEN <<>>
  ELSE LET stt == sendFloat32ArrayToServer(o.stt)
           e1 == <<[Fx("stt", buffer, stt.text, stt.ok) EXCEPT !.status = o.stt.status]>> IN
  IF ~stt.ok \/ isExcluded(stt.text) THEN e1
  ELSE LET e2 == Append(e1, Fx("user", stt.text, <<>>, o.user)) IN
  IF ~o.user THEN e2
  ELSE LET e3 == Append(e2, Fx("llm", stt.text, o.llm.text, o.llm.ok)) IN
  IF ~o.llm.ok THEN e3
  ELSE e3 \o <<Fx("assistant", o.llm.text, <<>>, o.asst),
                Fx("relay", o.llm.text, <<nrelay + 1>>, TRUE)>>

procEffects(buffer, o) ==
  IF lengthBelowGate(buffer) THEN <<>>
  ELSE LET stt == sendFloat32ArrayToServer(o.stt)
           e1 == <<[Fx("stt", buffer, stt.text, stt.ok) EXCEPT !.status = o.stt.status]>> IN
  IF ~stt.ok \/ isExcluded(stt.text) THEN e1
  ELSE LET e2 == Append(e1, Fx("user", stt.text, <<>>, o.user)) IN
  IF ~o.user THEN e2
  ELSE LET e3 == Append(e2, Fx("llm", stt.text, o.llm.text, o.llm.ok)) IN
  IF ~o.llm.ok THEN e3
  ELSE LET e4 == Append(e3, Fx("assistant", o.llm.text, <<>>, o.asst)) IN
  IF ~o.asst THEN e4
  ELSE Append(e4, Fx("relay", o.llm.text, <<nrelay + 1>>, TRUE))

startsRelay(effects) ==
  effects # <<>> /\ effects[Len(effects)].op = "relay"

(***************************************************************************)
(* websocketSendReceive up to the go statement (main.go:411-420): under    *)
(* wsMutex, cancel the relay whose cancel function is stored, store the    *)
(* new one, and start the goroutine.                                       *)
(***************************************************************************)
cancelsOnStart(r) == r = wsCancel

websocketSendReceive(c, data) ==
  LET r == nrelay + 1 IN
  /\ nrelay < MaxRelays
  /\ nrelay' = r
  /\ rcancelled' = [x \in Relays |-> rcancelled[x] \/ (wsCancel # Nil /\ cancelsOnStart(x))]
  /\ wsCancel' = r
  /\ rpc' = [rpc EXCEPT ![r] = "start"]
  /\ rcall' = [rcall EXCEPT ![r] = c]
  /\ rdata' = [rdata EXCEPT ![r] = data]
  /\ UNCHANGED <<rsent, rgot, connLog, relayHist>>

\* faulty variant: the processor handed to a goroutine (go handleInputAudio),
\* which has made no request yet when the read loop goes on
handleInputAudio_detached(c, buffer, o) == UNCHANGED <<fx, settingsVars, relayVars>>

\* main.go:207: sttSettings.Language = "ru"
forcedLanguage(settings) == [settings EXCEPT !.Language = "ru"]

\* faulty variant: the settings passed by pointer, so that the assignment of
\* main.go:207 reaches the caller's value
callerSettingsAfter_shared(settings) == forcedLanguage(settings)

\* main.go:186, 195: handleInputAudio receives *sttSettings by value; what the
\* caller holds after an assignment to a field of the parameter
callerSettingsAfter(settings) == settings

handleInputAudio(c, buffer, o) ==
  LET effects == procEffects(buffer, o) IN
  /\ fx' = [fx EXCEPT ![c] = @ \o effects]
  /\ sttSent' = [sttSent EXCEPT ![c] =
                   IF effects = <<>> THEN @ ELSE Append(@, forcedLanguage(sttSettings[c]))]
  /\ sttSettings' = [sttSettings EXCEPT ![c] =
                       IF effects = <<>> THEN @ ELSE callerSettingsAfter(@)]
  /\ UNCHANGED llmSettings
  /\ IF startsRelay(effects)
       THEN websocketSendReceive(c, relayData(effects[Len(effects)].arg))
       ELSE UNCHANGED relayVars

(***************************************************************************)
(* The Listener (main.go:45-60) and the head of Handle (main.go:72-141).   *)
(***************************************************************************)
\* Listen accepts the connection and starts Handle, which creates its VAD;
\* log.Fatal on a VAD failure ends the process
Accept(c) ==
  /\ ~crashed /\ spc[c] = "new" /\ stream[c] # <<>>
  /\ \E vadOk \in BOOLEAN :
       IF vadOk
         THEN spc' = [spc EXCEPT ![c] = "getid"] /\ UNCHANGED crashed
         ELSE crashed' = TRUE /\ UNCHANGED spc
  /\ UNCHANGED <<stream, answers, nread, histVars, connOpen, inputAudioBuffer, silenceCount, closed, fx, llmChat, settingsVars, relayVars>>
  /\ UNCHANGED storeVars

\* Handle's deferred c.Close() and cancel()
sessionExit(c) ==
  /\ spc' = [spc EXCEPT ![c] = "done"]
  /\ connOpen' = [connOpen EXCEPT ![c] = FALSE]

\* faulty variant: getCallID without the check of the frame kind
getCallIDFails_anyKind(f) == f.kind \in {"eof", "readerr"}

\* getCallID: the first frame must decode and be an identity frame
getCallIDFails(f) == f.kind \in {"eof", "readerr"} \/ f.kind # "id"

\* messages as the persistence service and the model library hold them
Msg(role, content) == [role |-> role, content |-> content]
SystemPrompt == <<"be", "brief">>
TwoMessages == <<Msg("user", Hello), Msg("assistant", HiThere)>>
\* the persisted histories GetChat may return
Histories == {<<>>, <<Msg("user", Hello)>>, TwoMessages,
              <<Msg("user", Hello), Msg("assistant", HiThere), Msg("user", <<"ok">>)>>}
\* what a conversation left from an earlier session of the same identifier holds
LeftOver == <<Msg("system", SystemPrompt), Msg("user", <<"ok">>)>>

\* the languages the fetched STT settings may name
Languages == {"en", "ru", ""}

\* messages is the history GetChat returns when it succeeds, language the
\* language of the STT settings GetSttSettings returns when it succeeds
SetupOutcomes ==
  [getChat : BOOLEAN, startChat : BOOLEAN, sttSettings : BOOLEAN,
   llmSettings : BOOLEAN, llmChatExists : BOOLEAN, llmChatNew : BOOLEAN,
   messages : Histories, language : Languages]

\* chat.go:157-191: the settings a successful fetch returns
fetchedStt(o) == [Language |-> o.language]
fetchedLlm(o) == [Model |-> "gemma2:9b", SystemPrompt |-> SystemPrompt]

\* main.go:114-124: the conversation LLM.GetChat finds; a new one is empty
foundConversation(o) == IF o.llmChatExists THEN LeftOver ELSE <<>>

\* main.go:125
DeleteAllMessages(conversation) == <<>>

\* main.go:135-141 as Go 1.18 (go.mod:3) runs it: the for statement has one
\* variable `message` for all its iterations, and the ollama.Message added in
\* iteration i holds the addresses of that variable's Role and Content.  Read
\* through these addresses once the loop has ended, every added message shows
\* what the variable holds then, the element assigned last.
seenThroughLoopVariable(messages, i) == messages[Len(messages)]

\* main.go:125-141: the conversation after DeleteAllMessages and the AddMessage
\* of the system message and of one message per persisted message
seedConversation(conversation, prompt, messages) ==
  DeleteAllMessages(conversation)
    \o <<Msg("system", prompt)>>
    \o [i \in 1..Len(messages) |-> seenThroughLoopVariable(messages, i)]

\* the requests of main.go:91-123, in order, and how the head of Handle ends:
\* "loop" (the read loop is entered), "return" or "panic" (chat is nil at
\* main.go:127 when GetChat failed and StartChat succeeded)
setupEffects(o) ==
  LET a == <<Fx("GetChat", <<>>, IF o.getChat THEN o.messages ELSE <<>>, o.getChat)>>
      b == IF o.getChat THEN a ELSE Append(a, Fx("StartChat", <<>>, <<>>, o.startChat))
  IN IF ~o.getChat /\ ~o.startChat THEN [fx |-> b, end |-> "return"]
  ELSE LET c1 == Append(b, Fx("GetSttSettings", <<>>,
                              IF o.sttSettings THEN fetchedStt(o) ELSE <<>>, o.sttSettings)) IN
  IF ~o.sttSettings THEN [fx |-> c1, end |-> "return"]
  ELSE LET d == Append(c1, Fx("GetLlmSettings", <<>>,
                              IF o.llmSettings THEN fetchedLlm(o) ELSE <<>>, o.llmSettings)) IN
  IF ~o.llmSettings THEN [fx |-> d, end |-> "return"]
  ELSE LET e == IF o.llmChatExists THEN d
                ELSE Append(d, Fx("LLM.Chat", <<>>, <<>>, o.llmChatNew)) IN
  IF ~o.llmChatExists /\ ~o.llmChatNew THEN [fx |-> e, end |-> "return"]
  ELSE IF ~o.getChat THEN [fx |-> e, end |-> "panic"]
  ELSE [fx |-> e, end |-> "loop"]

Setup(c) ==
  /\ ~crashed /\ spc[c] = "getid" /\ stream[c] # <<>>
  /\ \E f \in Head(stream[c]) :
       /\ stream' = [stream EXCEPT ![c] = Tail(@)]
       /\ nread' = [nread EXCEPT ![c] = @ + 1]
       /\ lastFrame' = [lastFrame EXCEPT ![c] = f]
       /\ IF getCallIDFails(f)
            THEN sessionExit(c) /\ UNCHANGED <<fx, crashed, llmChat, sttSettings, llmSettings>>
            ELSE \E o \in answers.setup :
                   LET s == setupEffects(o) IN
                   /\ fx' = [fx EXCEPT ![c] = @ \o s.fx]
                   /\ sttSettings' = [sttSettings EXCEPT ![c] =
                        IF \E i \in 1..Len(s.fx) : s.fx[i].op = "GetSttSettings" /\ s.fx[i].ok
                          THEN fetchedStt(o) ELSE @]
                   /\ llmSettings' = [llmSettings EXCEPT ![c] =
                        IF \E i \in 1..Len(s.fx) : s.fx[i].op = "GetLlmSettings" /\ s.fx[i].ok
                          THEN fetchedLlm(o) ELSE @]
                   /\ crashed' = (s.end = "panic")
                   /\ llmChat' = [llmChat EXCEPT ![c] =
                        IF s.end = "loop"
                          THEN seedConversation(foundConversation(o), SystemPrompt, o.messages)
                        ELSE IF s.end = "panic" THEN DeleteAllMessages(foundConversation(o))
                        ELSE foundConversation(o)]
                   /\ IF s.end = "return" THEN sessionExit(c)
                      ELSE IF s.end = "loop"
                        THEN spc' = [spc EXCEPT ![c] = "loop"] /\ UNCHANGED connOpen
                        ELSE UNCHANGED <<spc, connOpen>>
  /\ UNCHANGED <<answers, spoken, quiet, inputAudioBuffer, silenceCount, closed, sttSent, relayVars>>
  /\ UNCHANGED storeVars

(***************************************************************************)
(* The read loop of Handle (main.go:148-193): one iteration per frame.     *)
(***************************************************************************)
\* vad.Process(rate, audioData) at main.go:175
vadProcess(f) == IF f.len \notin ValidVadLens THEN "fail" ELSE f.vad

\* faulty variant: the hangup case without its return
frameClass_hangupSkipped(f) ==
  IF f.kind = "eof" THEN "end"
  ELSE IF f.kind # "slin" THEN "skip"
  ELSE IF f.len < 1 \/ pcmToFloat32ArrayFails(f.len) THEN "skip"
  ELSE IF vadProcess(f) = "fail" THEN "vadfail"
  ELSE IF vadProcess(f) = "active" THEN "speech"
  ELSE "silence"

\* faulty variant: every audio frame the VAD accepts taken for speech
frameClass_vadIgnored(f) ==
  IF f.kind = "eof" \/ f.kind = "hangup" THEN "end"
  ELSE IF f.kind # "slin" THEN "skip"
  ELSE IF f.len < 1 \/ pcmToFloat32ArrayFails(f.len) THEN "skip"
  ELSE IF vadProcess(f) = "fail" THEN "vadfail"
  ELSE "speech"

\* faulty variant: the error case ending the session like the hangup case
frameClass_errorFatal(f) ==
  IF f.kind \in {"eof", "hangup", "error"} THEN "end"
  ELSE IF f.kind # "slin" THEN "skip"
  ELSE IF f.len < 1 \/ pcmToFloat32ArrayFails(f.len) THEN "skip"
  ELSE IF vadProcess(f) = "fail" THEN "vadfail"
  ELSE IF vadProcess(f) = "active" THEN "speech"
  ELSE "silence"

\* what one iteration does with the frame it read:
\*  "end"     return (clean end of stream, hangup)
\*  "skip"    nothing (error frame, a failed read, which yields the empty
\*            message of kind error, any other kind, no audio data, odd length)
\*  "vadfail" the VAD error is logged, nothing else
\*  "speech", "silence"
frameClass(f) ==
  IF f.kind = "eof" \/ f.kind = "hangup" THEN "end"
  ELSE IF f.kind # "slin" THEN "skip"
  ELSE IF f.len < 1 \/ pcmToFloat32ArrayFails(f.len) THEN "skip"
  ELSE IF vadProcess(f) = "fail" THEN "vadfail"
  ELSE IF vadProcess(f) = "active" THEN "speech"
  ELSE "silence"

\* the history of what the VAD said, kept from the frame alone
Classified(f) == f.kind = "slin" /\ f.len \in ValidVadLens /\ f.vad \in {"active", "inactive"}

Hear(c, f) ==
  /\ spoken' = [spoken EXCEPT ![c] =
                  IF closed'[c] # closed[c] THEN <<>>
                  ELSE IF Classified(f) /\ f.vad = "active" THEN Append(@, f.len \div 2)
                  ELSE @]
  /\ quiet' = [quiet EXCEPT ![c] =
                  IF Classified(f) /\ f.vad = "active" THEN 0
                  ELSE IF Classified(f) THEN @ + 1
                  ELSE @]

ReadLoop(c) ==
  /\ ~crashed /\ spc[c] = "loop" /\ stream[c] # <<>>
  /\ \E f \in Head(stream[c]) :
       /\ stream' = [stream EXCEPT ![c] = Tail(@)]
       /\ nread' = [nread EXCEPT ![c] = @ + 1]
       /\ lastFrame' = [lastFrame EXCEPT ![c] = f]
       /\ CASE frameClass(f) = "end" ->
                 /\ sessionExit(c)
                 /\ UNCHANGED <<inputAudioBuffer, silenceCount, closed, fx, settingsVars, relayVars>>
            [] frameClass(f) \in {"skip", "vadfail"} ->
                 UNCHANGED <<spc, connOpen, inputAudioBuffer, silenceCount, closed, fx, settingsVars, relayVars>>
            [] frameClass(f) = "speech" ->
                 /\ inputAudioBuffer' = [inputAudioBuffer EXCEPT
                                           ![c] = Append(@, pcmToFloat32ArrayLen(f.len))]
                 /\ silenceCount' = [silenceCount EXCEPT ![c] = 0]
                 /\ UNCHANGED <<spc, connOpen, closed, fx, settingsVars, relayVars>>
            [] OTHER ->
                 /\ silenceCount' = [silenceCount EXCEPT ![c] = @ + 1]
                 /\ UNCHANGED <<spc, connOpen>>
                 /\ IF closesUtterance(silenceCount[c] + 1, inputAudioBuffer[c])
                      THEN /\ closed' = [closed EXCEPT ![c] = Append(@, inputAudioBuffer[c])]
                           /\ \E o \in answers.proc : handleInputAudio(c, inputAudioBuffer[c], o)
                           /\ inputAudioBuffer' = [inputAudioBuffer EXCEPT ![c] = <<>>]
                      ELSE UNCHANGED <<inputAudioBuffer, closed, fx, settingsVars, relayVars>>
       /\ Hear(c, f)
  /\ UNCHANGED <<answers, crashed, llmChat>>
  /\ UNCHANGED storeVars

(***************************************************************************)
(* The relay goroutine (main.go:420-478).                                  *)
(***************************************************************************)
\* messages wsConn.ReadMessage may yield: a binary chunk, the end_of_audio
\* control message, other JSON text, text that is not JSON, a read error
SynthMsgs == {"binary", "end_of_audio", "text", "badjson", "error"}

\* the deferred functions: wsConn.Close() and, under wsMutex, wsCancel = nil
clearedHandle(r) == Nil

relayExit(r) ==
  /\ rpc' = [rpc EXCEPT ![r] = "done"]
  /\ wsCancel' = clearedHandle(r)

\* Dial and WriteJSON (main.go:427-439)
RelayStart(r) ==
  /\ ~crashed /\ rpc[r] = "start"
  /\ \E dialOk \in BOOLEAN, sendOk \in BOOLEAN :
       IF dialOk /\ sendOk
         THEN /\ rpc' = [rpc EXCEPT ![r] = "loop"]
              /\ rsent' = [rsent EXCEPT ![r] = TRUE]
              /\ UNCHANGED wsCancel
         ELSE relayExit(r) /\ UNCHANGED rsent
  /\ UNCHANGED <<sessVars, crashed, nrelay, rcall, rdata, rcancelled, rgot, connLog, relayHist>>
  /\ UNCHANGED storeVars

\* faulty variant: ctx.Done() looked at only until the first chunk arrived
observesCancel_untilFirstChunk(r) == rcancelled[r] /\ rgot[r] = 0

\* faulty variant: the loop never looks at ctx.Done()
observesCancel_never(r) == FALSE

\* the select at the top of the loop (main.go:442-446): the case ctx.Done()
\* is taken whenever the context is cancelled, the default case otherwise
observesCancel(r) == rcancelled[r]

RelaySelect(r) ==
  /\ ~crashed /\ rpc[r] = "loop"
  /\ IF observesCancel(r)
       THEN relayExit(r)
       ELSE rpc' = [rpc EXCEPT ![r] = "read"] /\ UNCHANGED wsCancel
  /\ UNCHANGED <<sessVars, crashed, nrelay, rcall, rdata, rcancelled, rsent, rgot, connLog, relayHist>>
  /\ UNCHANGED storeVars

\* faulty variant: every text message taken for the end of the audio
endsRelay_anyText(m) == m \in {"end_of_audio", "error", "text", "badjson"}

\* main.go:448-453, 459-462: a read error (the stream closed or failed) and
\* the control message end_of_audio make the goroutine return
endsRelay(m) == m \in {"end_of_audio", "error"}

\* main.go:428: every relay goroutine makes an AudioWriter of its own, and the
\* mutex Write takes (main.go:482, 487) is a field of that AudioWriter
audioWriterOf(r) == r

\* aw.mutex.Lock() at main.go:487 succeeds: no other task is inside Write on
\* the same AudioWriter
mutexFree(r) ==
  \A x \in Relays \ {r} : audioWriterOf(x) = audioWriterOf(r) => rpc[x] # "write"

\* wsConn.ReadMessage returns (main.go:447-475); on a binary chunk the relay
\* enters audioWriter.Write
Receive(r, m) ==
  /\ ~crashed /\ rpc[r] = "read"
  /\ CASE m = "binary" ->
            /\ rgot[r] < MaxChunks
            /\ mutexFree(r)
            /\ rgot' = [rgot EXCEPT ![r] = @ + 1]
            /\ rpc' = [rpc EXCEPT ![r] = "write"]
            /\ UNCHANGED wsCancel
       [] endsRelay(m) ->
            relayExit(r) /\ UNCHANGED rgot
       [] OTHER ->
            rpc' = [rpc EXCEPT ![r] = "loop"] /\ UNCHANGED <<wsCancel, rgot>>
  /\ UNCHANGED <<sessVars, crashed, nrelay, rcall, rdata, rcancelled, rsent, connLog, relayHist>>
  /\ UNCHANGED storeVars

RelayRead(r) == \E m \in SynthMsgs : Receive(r, m)

\* audioWriter.Write returns (main.go:469-472, 486-496): the chunk is on the
\* call connection, or the write failed (always so on a closed connection)
RelayWrite(r) ==
  /\ ~crashed /\ rpc[r] = "write"
  /\ \E writeOk \in BOOLEAN :
       IF writeOk /\ connOpen[rcall[r]]
         THEN /\ connLog' = [connLog EXCEPT ![rcall[r]] = Append(@, <<r, rgot[r]>>)]
              /\ rpc' = [rpc EXCEPT ![r] = "loop"]
              /\ rlate' = [rlate EXCEPT ![r] = IF rcancelled[r] THEN @ + 1 ELSE @]
              /\ UNCHANGED wsCancel
         ELSE relayExit(r) /\ UNCHANGED <<connLog, rlate>>
  /\ UNCHANGED <<sessVars, crashed, nrelay, rcall, rdata, rcancelled, rsent, rgot>>
  /\ UNCHANGED storeVars

(***************************************************************************)
(* The chat store (api/client.go:299-439).  A string is a sequence of      *)
(* characters, so that strings.TrimSpace has something to trim.            *)
(***************************************************************************)
MaxSends == 2

\* unicode.IsSpace, on the characters used here
isSpace(ch) == ch \in {" ", "\t", "\n", "\r"}

RECURSIVE TrimLeft(_)
TrimLeft(s) == IF s # <<>> /\ isSpace(Head(s)) THEN TrimLeft(Tail(s)) ELSE s

RECURSIVE TrimRight(_)
TrimRight(s) ==
  IF s # <<>> /\ isSpace(s[Len(s)]) THEN TrimRight(SubSeq(s, 1, Len(s) - 1)) ELSE s

\* strings.TrimSpace: leading and trailing white space removed
TrimSpace(s) == TrimRight(TrimLeft(s))

\* the contents SendMessage is called with, the chat ids a store may hold,
\* and the contents the model may reply
Contents == {<<>>, <<" ", "\t">>, <<"a">>, <<" ", "a", " ">>}
ChatIds == {<<>>, <<" ">>, <<"c">>}
ModelReplies == {<<>>, <<"\n">>, <<" ", "b", " ">>}

\* HTTPChatAPI.SendMessage (api/client.go:153-182): the request fails or its
\* answer does not decode ("failed"); the service stores the message and
\* answers with it ("accepted"); the service answers with something else
\* that decodes, such as the body of an error response, the status of which
\* is not looked at ("unchecked")
ChatAnswers == {"accepted", "unchecked", "failed"}

StoreOutcomes ==
  [user : ChatAnswers, llm : [ok : BOOLEAN, content : ModelReplies], asst : ChatAnswers]

StoredMessage(role, content) == [Role |-> role, Content |-> content]

\* the *Message the chat API hands back
chatReply(answer, role, content) ==
  IF answer = "accepted" THEN StoredMessage(role, content) ELSE StoredMessage("", <<>>)

ChatCall(chat, role, content) ==
  [api |-> "SendMessage", chat |-> chat, role |-> role, content |-> content]

\* api/client.go:366-387: the system prompt (empty here), then every stored
\* message, a role other than user and assistant sent as "system"
ollamaMessages(msgs) ==
  <<[role |-> "system", content |-> <<>>]>> \o
  [k \in 1..Len(msgs) |->
     [role |-> IF msgs[k].Role \in {"user", "assistant"} THEN msgs[k].Role ELSE "system",
      content |-> msgs[k].Content]]

OllamaCall(msgs) == [api |-> "Chat", messages |-> ollamaMessages(msgs)]

\* faulty variant: only the content is looked at
blankRequest_contentOnly(chat, content) == TrimSpace(content) = <<>>

\* api/client.go:343
blankRequest(chat, content) == TrimSpace(chat) = <<>> \/ TrimSpace(content) = <<>>

storePanicked == \E i \in 1..Len(returned) : returned[i].ret = "panic"

\* ChatStore.SendMessage (api/client.go:337-439).  cs.mu is held from the
\* first statement to the return (api/client.go:338-339), so calls on one
\* store run one after the other.  With a nil Model the dereference at
\* api/client.go:404 panics, after the user message was sent and appended.
SendMessage(content, o) ==
  /\ ~storePanicked /\ Len(returned) < MaxSends
  /\ LET userCall == ChatCall(CurrentChat, "user", content)
         afterUser == Append(Messages, chatReply(o.user, "user", content))
         request == OllamaCall(afterUser)
         assistantContent == TrimSpace(o.llm.content)
         asstCall == ChatCall(CurrentChat, "assistant", assistantContent)
         asstMsg == chatReply(o.asst, "assistant", assistantContent)
         ends(msgs, err, calls, ret) ==
           /\ Messages' = msgs
           /\ Error' = err
           /\ apiLog' = apiLog \o calls
           /\ returned' = Append(returned, [content |-> content, ret |-> ret])
     IN  IF blankRequest(CurrentChat, content)
           THEN ends(Messages, Error, <<>>, "error")
         ELSE IF o.user = "failed"
           THEN ends(Messages, "send user", <<userCall>>, "error")
         ELSE IF Model = "nil"
           THEN ends(afterUser, Error, <<userCall>>, "panic")
         ELSE IF ~o.llm.ok
           THEN ends(afterUser, "chat", <<userCall, request>>, "error")
         ELSE IF assistantContent = <<>>
           THEN ends(afterUser, "empty response", <<userCall, request>>, "error")
         ELSE IF o.asst = "failed"
           THEN ends(afterUser, "send assistant", <<userCall, request, asstCall>>, "error")
         ELSE ends(Append(afterUser, asstMsg), Error, <<userCall, request, asstCall>>, "response")
  /\ UNCHANGED <<CurrentChat, Model, bridgeVars>>

(***************************************************************************)
(* What the peers send.  A scripted utterance is ScriptSpeech speech       *)
(* frames of 960 bytes and then silenceThreshold + 1 silence frames.       *)
(***************************************************************************)
Utterance == Rep(ScriptSpeech, {Speech(960)}) \o Rep(silenceThreshold + 1, {Silence(960)})

TailFrames == {Speech(960), Silence(960), VadFail(960), HangupFrame}

\* every service answers, the transcript is "hello", the reply "hi there"
AllUp ==
  [setup |-> {[getChat |-> TRUE, startChat |-> TRUE, sttSettings |-> TRUE,
               llmSettings |-> TRUE, llmChatExists |-> FALSE, llmChatNew |-> TRUE,
               messages |-> <<>>, language |-> "en"]},
   proc |-> {[stt |-> SttResponse(TRUE, StatusOK, Body("transcription", Hello)), user |-> TRUE,
              llm |-> Answer(TRUE, HiThere), asst |-> TRUE]}]
\* every service may fail or answer anything; the chat has two messages and
\* the STT settings name the language "en"
AnyAnswer ==
  [setup |-> {o \in SetupOutcomes : o.messages = TwoMessages /\ o.language = "en"},
   proc |-> Outcomes]
\* every service may fail or answer anything; the chat has any history and
\* the STT settings name any language
AnyHistory == [setup |-> SetupOutcomes, proc |-> Outcomes]

\* one call: three utterances, each answered and relayed
ThreeUtterances ==
  [stream |-> [c \in Calls |-> IF c = 1
      THEN <<{IdFrame}>> \o Utterance \o Utterance \o Utterance \o <<{HangupFrame}>>
      ELSE <<>>],
   answers |-> AllUp]

Scenarios ==
  { \* one call whose peer sends anything
    [stream |-> [c \in Calls |-> IF c = 1 THEN <<FirstFrames>> \o Rep(FreeLen, FreeFrames)
                                          ELSE <<>>],
     answers |-> AnyAnswer],
    \* one call: a speech run just below the gate, then anything
    [stream |-> [c \in Calls |-> IF c = 1
        THEN <<{IdFrame}>> \o Rep(ScriptSpeech - 1, {Speech(960)}) \o Rep(TailLen, TailFrames)
        ELSE <<>>],
     answers |-> AnyAnswer],
    \* two calls: two utterances on one, one utterance on the other
    [stream |-> [c \in Calls |-> IF c = 1
        THEN <<{IdFrame}>> \o Utterance \o Utterance \o <<{HangupFrame, EofFrame}>>
        ELSE <<{IdFrame}>> \o Utterance \o <<{HangupFrame}>>],
     answers |-> AllUp],
    \* one call that hangs up after the identity frame
    [stream |-> [c \in Calls |-> IF c = 1 THEN <<{IdFrame}, {HangupFrame}>> ELSE <<>>],
     answers |-> AnyHistory],
    \* one call: an utterance of frames of 320 bytes, as the wire format has them
    [stream |-> [c \in Calls |-> IF c = 1
        THEN <<{IdFrame}>> \o Rep(WireSpeech, {Speech(320)})
               \o Rep(silenceThreshold + 1, {Silence(320)}) \o <<{HangupFrame}>>
        ELSE <<>>],
     answers |-> AllUp],
    ThreeUtterances }

BridgeInit ==
  /\ \E sc \in Scenarios : stream = sc.stream /\ answers = sc.answers
  /\ nread = [c \in Calls |-> 0]
  /\ lastFrame = [c \in Calls |-> Frame("none", 0, "na")]
  /\ spoken = [c \in Calls |-> <<>>]
  /\ quiet = [c \in Calls |-> 0]
  /\ spc = [c \in Calls |-> "new"]
  /\ connOpen = [c \in Calls |-> TRUE]
  /\ inputAudioBuffer = [c \in Calls |-> <<>>]
  /\ silenceCount = [c \in Calls |-> 0]
  /\ closed = [c \in Calls |-> <<>>]
  /\ fx = [c \in Calls |-> <<>>]
  /\ llmChat = [c \in Calls |-> <<>>]
  /\ sttSettings = [c \in Calls |-> Nil]
  /\ llmSettings = [c \in Calls |-> Nil]
  /\ sttSent = [c \in Calls |-> <<>>]
  /\ crashed = FALSE
  /\ wsCancel = Nil
  /\ nrelay = 0
  /\ rpc = [r \in Relays |-> "none"]
  /\ rcall = [r \in Relays |-> 1]
  /\ rdata = [r \in Relays |-> relayData(<<>>)]
  /\ rcancelled = [r \in Relays |-> FALSE]
  /\ rsent = [r \in Relays |-> FALSE]
  /\ rgot = [r \in Relays |-> 0]
  /\ connLog = [c \in Calls |-> <<>>]
  /\ rlate = [r \in Relays |-> 0]

\* NewChatStore (api/client.go:312-318): a store no chat was loaded into
StoreFresh ==
  /\ CurrentChat = <<>> /\ Messages = <<>> /\ Error = "" /\ Model = "nil"
  /\ apiLog = <<>> /\ returned = <<>>

Init == BridgeInit /\ StoreFresh

Next ==
  \/ \E c \in Calls : Accept(c)
  \/ \E c \in Calls : Setup(c)
  \/ \E c \in Calls : ReadLoop(c)
  \/ \E r \in Relays : RelayStart(r)
  \/ \E r \in Relays : RelaySelect(r)
  \/ \E r \in Relays : RelayRead(r)
  \/ \E r \in Relays : RelayWrite(r)

Spec == Init /\ [][Next]_vars

\* The relays under fair scheduling: the goroutine is scheduled, and each
\* of its blocking calls (Dial and WriteJSON, ReadMessage, conn.Write)
\* returns.  What a call returns stays free: a stream may deliver
\* informational messages for ever.
FairInit == Init /\ stream = ThreeUtterances.stream /\ answers = ThreeUtterances.answers

RelayFairness ==
  \A r \in Relays :
    /\ WF_vars(RelayStart(r)) /\ WF_vars(RelaySelect(r))
    /\ WF_vars(RelayRead(r)) /\ WF_vars(RelayWrite(r))

FairSpec == FairInit /\ [][Next]_vars /\ RelayFairness

\* The chat store on its own: a store as LoadChatStore leaves it
\* (api/client.go:321-334) or as NewChatStore does, and any calls of
\* SendMessage.
StoreInit ==
  /\ BridgeInit /\ stream = ThreeUtterances.stream /\ answers = ThreeUtterances.answers
  /\ CurrentChat \in ChatIds
  /\ Messages \in {<<>>, <<StoredMessage("user", <<"a">>), StoredMessage("assistant", <<"b">>)>>}
  /\ Error = ""
  /\ Model \in {"nil", "llama"}
  /\ apiLog = <<>> /\ returned = <<>>

StoreNext == \E content \in Contents, o \in StoreOutcomes : SendMessage(content, o)

StoreSpec == StoreInit /\ [][StoreNext]_vars

(***************************************************************************)
(* Vocabulary of the properties.                                           *)
(***************************************************************************)
Started(r) == rpc[r] # "none"
Alive(r) == rpc[r] \notin {"none", "done"}
\* relay r completes a write to its call connection in this step
Writes(r) ==
  /\ rpc[r] = "write"
  /\ connLog'[rcall[r]] = Append(connLog[rcall[r]], <<r, rgot[r]>>)
\* relay r is started in this step
Starts(r) == rpc[r] = "none" /\ rpc'[r] = "start"

(***************************************************************************)
(* C1.  Once relay B has been started for a call, an older relay A of the  *)
(* same call performs no further write to the call connection, so A's      *)
(* frames all precede B's frames.                                          *)
(* Fails: A, blocked in ReadMessage when B starts, writes the chunk it     *)
(* receives next; and A goes on writing when its handle had been cleared.  *)
(***************************************************************************)
C1_NoWriteAfterSupersede ==
  [][\A a \in Relays :
       Writes(a) => ~\E b \in Relays : b > a /\ Started(b) /\ rcall[b] = rcall[a]]_vars

(***************************************************************************)
(* C2.  A relay's cancellation token is fired only by a relay start for    *)
(* the same call.                                                          *)
(* Fails: wsCancel is one handle for the whole process.                    *)
(***************************************************************************)
C2_CancelScopedPerCall ==
  [][\A a \in Relays :
       (rcancelled'[a] /\ ~rcancelled[a]) =>
          \E b \in Relays : Starts(b) /\ rcall'[b] = rcall[a]]_vars

(***************************************************************************)
(* C3.  At most one relay is alive (started, not terminated) per call.     *)
(* Fails: the new goroutine starts without waiting for the old one.        *)
(***************************************************************************)
C3_OneAlivePerCall ==
  \A c \in Calls : Cardinality({r \in Relays : Alive(r) /\ rcall[r] = c}) <= 1

(***************************************************************************)
(* C4.  After a relay start, every older relay of that call that is still  *)
(* running has had its cancellation token fired.                           *)
(* Fails: a terminating relay clears wsCancel whoever owns it, so the next *)
(* start finds no handle to cancel.                                        *)
(***************************************************************************)
C4_OlderRelaysCancelled ==
  \A a \in Relays, b \in Relays :
    (a < b /\ Started(b) /\ rcall[a] = rcall[b] /\ Alive(a)) => rcancelled[a]

(***************************************************************************)
(* C5 as stated.  Once five silence frames have followed the speech        *)
(* frames, the utterance has been dispatched.                              *)
(* Fails: the code dispatches when silenceCount exceeds 5.                 *)
(***************************************************************************)
C5_DispatchedByFifthSilence ==
  \A c \in Calls : spoken[c] # <<>> => quiet[c] < 5

(***************************************************************************)
(* C5 amended.  Speech frames followed by silence frames are dispatched    *)
(* as exactly one utterance, made of exactly those speech frames in order, *)
(* on the 6th silence frame since the last speech frame (never earlier,    *)
(* never later), and the buffer is empty afterwards, so that the next      *)
(* speech frame starts a new utterance.                                    *)
(***************************************************************************)
C5_DispatchOnSixthSilence ==
  /\ [](\A c \in Calls : /\ spoken[c] # <<>> => quiet[c] <= 5
                         /\ inputAudioBuffer[c] = spoken[c])
  /\ [][\A c \in Calls :
          closed'[c] # closed[c] =>
            /\ spoken[c] # <<>>
            /\ closed'[c] = Append(closed[c], spoken[c])
            /\ quiet[c] = 5 /\ quiet'[c] = 6
            /\ lastFrame'[c].vad = "inactive"
            /\ inputAudioBuffer'[c] = <<>>]_vars

C5_Witness ==
  \E c \in Calls : Len(closed[c]) = 1 /\ Len(inputAudioBuffer[c]) = 1 /\ spc[c] = "loop"

(***************************************************************************)
(* C6.  A closed utterance whose duration, as calculateAudioLength         *)
(* measures it (samples / 16000), is below 0.40 s is dropped: no           *)
(* transcription request, no chat-log append, no model call and no relay   *)
(* start is made for it.                                                   *)
(***************************************************************************)
C6_ShortUtteranceDropped ==
  [][\A c \in Calls :
       (/\ closed'[c] # closed[c]
        /\ totalSamples(closed'[c][Len(closed'[c])]) * 100 < 40 * 16000)
       => (fx'[c] = fx[c] /\ nrelay' = nrelay /\ rpc' = rpc /\ rcancelled' = rcancelled)]_vars

\* an utterance of 0.39 s by the gate's measure (0.78 s of 8 kHz audio) was dropped
C6_Witness ==
  \E c \in Calls : \E i \in 1..Len(closed[c]) :
    /\ totalSamples(closed[c][i]) = 6240
    /\ \A j \in 1..Len(fx[c]) : fx[c][j].op # "stt"

(***************************************************************************)
(* C7.  A transcript equal to a denylisted string ends the processing of   *)
(* its utterance: no chat-log append, no model call, no relay.  A          *)
(* transcript that contains a denylisted string as a proper substring is   *)
(* appended to the chat log as a user message.                             *)
(***************************************************************************)
C7_DenylistExactMatch ==
  \A c \in Calls : \A i \in 1..Len(fx[c]) :
    (fx[c][i].op = "stt" /\ fx[c][i].ok) =>
      /\ fx[c][i].res \in excludedWords =>
           (i = Len(fx[c]) \/ fx[c][i + 1].op = "stt")
      /\ (/\ fx[c][i].res \notin excludedWords
          /\ \E w \in excludedWords : IsProperSubstring(w, fx[c][i].res)) =>
           (/\ i < Len(fx[c])
            /\ fx[c][i + 1].op = "user"
            /\ fx[c][i + 1].arg = fx[c][i].res)

C7_Witness ==
  \E c \in Calls : \E i \in 1..Len(fx[c]) :
    /\ fx[c][i].op = "stt" /\ fx[c][i].ok
    /\ fx[c][i].res = <<"Subtitry", "sdelal", "DimaTorzok">>
    /\ i = Len(fx[c])
    /\ spc[c] = "loop"

(***************************************************************************)
(* C8.  A hangup frame read in the read loop ends the session and closes   *)
(* the connection; the buffer accumulated so far is not handed to the      *)
(* utterance processor and no request is made to any service.              *)
(***************************************************************************)
C8_HangupEndsSession ==
  [][\A c \in Calls :
       (spc[c] = "loop" /\ nread'[c] = nread[c] + 1 /\ lastFrame'[c].kind = "hangup")
       => /\ spc'[c] = "done" /\ ~connOpen'[c]
          /\ closed'[c] = closed[c] /\ fx'[c] = fx[c]
          /\ nrelay' = nrelay /\ rpc' = rpc]_vars

C8_Witness ==
  \E c \in Calls :
    /\ spc[c] = "done" /\ lastFrame[c].kind = "hangup"
    /\ inputAudioBuffer[c] # <<>> /\ silenceCount[c] > 0

(***************************************************************************)
(* C9.  If the first frame of a connection fails to decode or is not an    *)
(* identity frame, the session ends with the connection closed and without *)
(* any request to the persistence service or the model.                    *)
(***************************************************************************)
C9_BadFirstFrameAborts ==
  \A c \in Calls :
    (nread[c] = 1 /\ lastFrame[c].kind # "id") =>
      (spc[c] = "done" /\ ~connOpen[c] /\ fx[c] = <<>>)

C9_Witness ==
  \E c \in Calls :
    nread[c] = 1 /\ lastFrame[c].kind = "slin" /\ spc[c] = "done" /\ fx[c] = <<>>

(***************************************************************************)
(* C10 as stated.  After the identity frame, 3 speech frames and 5         *)
(* silence frames, the utterance has been submitted to transcription, and  *)
(* the chat log and the relay follow from the answers.                     *)
(* Fails: 3 frames are far below the 0.40 s gate, and the 5th silence      *)
(* frame does not close the utterance.                                     *)
(***************************************************************************)
SttArgs(c) ==
  LET RECURSIVE args(_)
      args(q) == IF q = <<>> THEN <<>>
                 ELSE IF Head(q).op = "stt" THEN <<Head(q).arg>> \o args(Tail(q))
                 ELSE args(Tail(q))
  IN args(fx[c])

C10_ThreeFramesFiveSilences ==
  \A c \in Calls :
    (nread[c] = 9 /\ quiet[c] = 5 /\ Len(spoken[c]) = 3 /\ closed[c] = <<>>)
      => SttArgs(c) = <<spoken[c]>>

(***************************************************************************)
(* C10 amended.  A session that receives the identity frame, then speech   *)
(* frames that total at least 0.40 s by the gate's measure (6400 samples:  *)
(* 40 frames of 320 bytes, 14 of 960), then 6 silence frames, submits the  *)
(* utterance to transcription; when that returns "hello" it appends the    *)
(* user message "hello", calls the model, and when that returns            *)
(* "hi there" appends the assistant message "hi there" and starts a relay  *)
(* for this call whose control message is "hi there", "ru", 1.0, 0.015     *)
(* (each step provided the one before succeeded).  The relay writes every  *)
(* binary chunk it receives to the call connection, one frame per chunk    *)
(* in the order received, until a write fails.                             *)
(***************************************************************************)
FramesOf(r) == SelectSeq(connLog[rcall[r]], LAMBDA e : e[1] = r)

LongEnough(u) == totalSamples(u) >= 6400

RelayWroteWhatItGot(r) ==
  LET n == Len(FramesOf(r)) IN
  /\ FramesOf(r) = [k \in 1..n |-> <<r, k>>]
  /\ rpc[r] \in {"loop", "read"} => n = rgot[r] /\ rsent[r]
  /\ rpc[r] = "write" => n = rgot[r] - 1 /\ rsent[r]
  /\ rpc[r] = "done" => n \in {rgot[r] - 1, rgot[r]}
  /\ rpc[r] \in {"none", "start"} => n = 0 /\ rgot[r] = 0 /\ ~rsent[r]

ChainFrom(c, i) ==
  LET q == fx[c]
      n == Len(q)
  IN (q[i].op = "stt" /\ q[i].ok /\ q[i].res = <<"hello">>) =>
       /\ i + 1 <= n /\ q[i + 1].op = "user" /\ q[i + 1].arg = <<"hello">>
       /\ q[i + 1].ok =>
            /\ i + 2 <= n /\ q[i + 2].op = "llm" /\ q[i + 2].arg = <<"hello">>
            /\ (q[i + 2].ok /\ q[i + 2].res = <<"hi", "there">>) =>
                 /\ i + 3 <= n /\ q[i + 3].op = "assistant"
                 /\ q[i + 3].arg = <<"hi", "there">>
                 /\ q[i + 3].ok =>
                      /\ i + 4 <= n /\ q[i + 4].op = "relay"
                      /\ \E r \in Relays :
                           /\ q[i + 4].res = <<r>>
                           /\ Started(r) /\ rcall[r] = c
                           /\ rdata[r] = [message |-> <<"hi", "there">>, language |-> "ru",
                                          speedMilli |-> 1000, awaitMilli |-> 15]

C10_EndToEnd ==
  /\ \A c \in Calls :
       /\ spoken[c] # <<>> => quiet[c] <= 5
       /\ SttArgs(c) = SelectSeq(closed[c], LongEnough)
       /\ \A i \in 1..Len(fx[c]) : ChainFrom(c, i)
  /\ \A r \in Relays : RelayWroteWhatItGot(r)

\* the scripted utterance went through, and its relay, never cancelled, wrote
\* both chunks it received and has terminated
C10_Witness ==
  \E c \in Calls : \E r \in Relays :
    /\ nread[c] = 1 + ScriptSpeech + 6
    /\ Len(closed[c]) = 1 /\ Len(closed[c][1]) = ScriptSpeech
    /\ Len(fx[c]) >= 5
    /\ fx[c][Len(fx[c])].op = "relay" /\ fx[c][Len(fx[c])].res = <<r>>
    /\ fx[c][Len(fx[c]) - 4].res = <<"hello">>
    /\ rpc[r] = "done" /\ ~rcancelled[r]
    /\ FramesOf(r) = <<<<r, 1>>, <<r, 2>>>>

(***************************************************************************)
(* C11.  Writes of audio frames to one call connection are mutually        *)
(* exclusive: at most one task is inside a write to that connection at a   *)
(* time.                                                                   *)
(* Fails: the mutex belongs to the AudioWriter, and each relay has its own *)
(* AudioWriter, so two relays of one call are inside Write together.       *)
(***************************************************************************)
InsideWrite(r) == rpc[r] = "write"

C11_WritesExclusive ==
  \A c \in Calls : Cardinality({r \in Relays : InsideWrite(r) /\ rcall[r] = c}) <= 1

(***************************************************************************)
(* C12.  In the read loop, a frame decode failure other than the clean end *)
(* of the stream ends the session and closes the connection; no further    *)
(* frame is read.                                                          *)
(* Fails: the loop returns only when the cause of the error is io.EOF      *)
(* (main.go:150); after any other error it takes the message, which is of  *)
(* kind error, logs and goes on to the next read.                          *)
(***************************************************************************)
C12_DecodeErrorEndsSession ==
  [][\A c \in Calls :
       (spc[c] = "loop" /\ nread'[c] = nread[c] + 1 /\ lastFrame'[c].kind = "readerr")
       => (spc'[c] = "done" /\ ~connOpen'[c])]_vars

(***************************************************************************)
(* C13.  An audio frame whose VAD classification fails is handled like a   *)
(* silence frame: it is not appended to the utterance and it increments    *)
(* the silence counter.                                                    *)
(* Fails: main.go:175-176 only logs the error; the counter is incremented  *)
(* in the other branch alone, so such frames never close an utterance.     *)
(***************************************************************************)
VadFailed(f) ==
  /\ f.kind = "slin" /\ f.len >= 1 /\ ~pcmToFloat32ArrayFails(f.len)
  /\ vadProcess(f) = "fail"

C13_VadFailureCountsAsSilence ==
  [][\A c \in Calls :
       (spc[c] = "loop" /\ nread'[c] = nread[c] + 1 /\ VadFailed(lastFrame'[c]))
       => /\ inputAudioBuffer'[c] \in {inputAudioBuffer[c], <<>>}
          /\ silenceCount'[c] = silenceCount[c] + 1
          /\ spc'[c] = "loop"]_vars

(***************************************************************************)
(* C14.  In the utterance processor, when a step after the duration gate   *)
(* fails (the transcription request, the append of the user message, the   *)
(* model call or the append of the assistant message returns an error), no *)
(* later step is made for that utterance: the next request of the session, *)
(* if any, is the transcription of a later utterance, and no relay is      *)
(* started.  The session stays in the read loop with the connection open,  *)
(* and the utterance buffer is empty when the next frame is read.          *)
(* A failure is what the step reports as an error; which responses the     *)
(* transcription step reports as errors is the matter of C15.              *)
(***************************************************************************)
StepOps == {"stt", "user", "llm", "assistant"}

FailedStep(e) == e.op \in StepOps /\ ~e.ok

C15_NonSuccessStatusAborts ==
  \A c \in Calls : \A i \in 1..Len(fx[c]) :
    (fx[c][i].op = "stt" /\ fx[c][i].status # StatusOK) =>
      (i = Len(fx[c]) \/ fx[c][i + 1].op = "stt")

(***************************************************************************)
(* C16.  After a valid identity frame, when the lookup of the chat fails,  *)
(* its creation succeeds and both settings fetches succeed, the session    *)
(* completes setup and reaches the read loop (or has ended since); it does *)
(* not crash.                                                              *)
(* Fails: the chat StartChat created is never assigned, so chat is nil     *)
(* when main.go:127 reads chat.Messages, and the process panics.           *)
(***************************************************************************)
CreatedChat(c) ==
  /\ Len(fx[c]) >= 4
  /\ fx[c][1].op = "GetChat" /\ ~fx[c][1].ok
  /\ fx[c][2].op = "StartChat" /\ fx[c][2].ok
  /\ fx[c][3].op = "GetSttSettings" /\ fx[c][3].ok
  /\ fx[c][4].op = "GetLlmSettings" /\ fx[c][4].ok
  /\ (Len(fx[c]) >= 5 /\ fx[c][5].op = "LLM.Chat") => fx[c][5].ok

C16_CreatedChatReachesLoop ==
  \A c \in Calls : CreatedChat(c) => (spc[c] \in {"loop", "done"} /\ ~crashed)

(***************************************************************************)
(* C17.  When setup has finished, the model-side conversation of the call  *)
(* holds the system prompt message first, then one message per persisted   *)
(* chat message in the original order, each with that message's own role   *)
(* and content, and nothing else.                                          *)
(* Fails: the loop at main.go:135-141 stores the addresses of the fields   *)
(* of its one loop variable (Go 1.18), so every seeded message shows the   *)
(* role and content of the last persisted message.                         *)
(***************************************************************************)
SetupFinished(c) == spc[c] = "loop" \/ (spc[c] = "done" /\ nread[c] > 1)

Persisted(c) == fx[c][1].res

C17_ConversationSeeded ==
  \A c \in Calls :
    SetupFinished(c) => llmChat[c] = <<Msg("system", SystemPrompt)>> \o Persisted(c)

(***************************************************************************)
(* C18.  For every byte sequence of odd length pcmToFloat32Array returns   *)
(* an error and no samples; in the read loop an audio frame of odd length  *)
(* is skipped: the utterance buffer and the silence counter are unchanged, *)
(* nothing is dispatched and the session stays in the loop.                *)
(***************************************************************************)
OddLens == {n \in 0..MaxPcmLen : n % 2 = 1} \cup {f.len : f \in {g \in FreeFrames : g.len % 2 = 1}}

C18_OddLengthSkipped ==
  /\ [](\A n \in OddLens : pcmToFloat32ArrayFails(n) /\ pcmToFloat32ArrayLen(n) = 0)
  /\ [][\A c \in Calls :
          (/\ spc[c] = "loop" /\ nread'[c] = nread[c] + 1
           /\ lastFrame'[c].kind = "slin" /\ lastFrame'[c].len % 2 = 1)
          => /\ pcmToFloat32ArrayFails(lastFrame'[c].len)
             /\ inputAudioBuffer'[c] = inputAudioBuffer[c]
             /\ silenceCount'[c] = silenceCount[c]
             /\ closed'[c] = closed[c] /\ fx'[c] = fx[c]
             /\ spc'[c] = "loop" /\ connOpen'[c] /\ ~crashed']_vars

\* a frame of 321 bytes arrived after a speech frame and a silence frame
C18_Witness ==
  \E c \in Calls :
    /\ lastFrame[c].kind = "slin" /\ lastFrame[c].len = 321
    /\ Len(inputAudioBuffer[c]) = 1 /\ silenceCount[c] = 1
    /\ spc[c] = "loop" /\ connOpen[c]

(***************************************************************************)
(* C19.  For every utterance the external effects happen in the order      *)
(* transcription request, append of the transcript as user message, model  *)
(* call with the transcript, append of the reply as assistant message,     *)
(* relay start with the reply, and each one only directly after the one    *)
(* before it has succeeded (returned no error).  There is at most one      *)
(* transcription request per closed utterance; relays are started by this  *)
(* chain alone, at most one per utterance, and never for an utterance      *)
(* whose assistant message was not appended.                               *)
(***************************************************************************)
Follows(c, i, op) == i > 1 /\ fx[c][i - 1].op = op /\ fx[c][i - 1].ok

RelayEntries(c) == {i \in 1..Len(fx[c]) : fx[c][i].op = "relay"}

RelayStep(r) == rpc[r] \notin {"none", "done"} /\ rpc'[r] # rpc[r]

C20_ProcessingSequential ==
  /\ [](\A c \in Calls : SttArgs(c) = SelectSeq(closed[c], LongEnough))
  /\ [][\A c \in Calls :
          /\ (spc[c] = "loop" /\ fx'[c] # fx[c]) =>
               /\ nread'[c] = nread[c] + 1
               /\ closed'[c] = Append(closed[c], inputAudioBuffer[c])
               /\ inputAudioBuffer'[c] = <<>>
               /\ spc'[c] = "loop"
               /\ Len(SttArgs(c)') = Len(SttArgs(c)) + 1
          /\ Len(inputAudioBuffer'[c]) > Len(inputAudioBuffer[c]) =>
               (fx'[c] = fx[c] /\ closed'[c] = closed[c] /\ nrelay' = nrelay)
          /\ (\E r \in Relays : RelayStep(r)) =>
               (nread' = nread /\ fx' = fx /\ closed' = closed
                /\ inputAudioBuffer' = inputAudioBuffer)]_vars

\* the relay of the first utterance has written a frame and is still running
\* while the read loop accumulates the second utterance
C20_Witness ==
  \E c \in Calls : \E r \in Relays :
    /\ Len(closed[c]) = 1 /\ Len(inputAudioBuffer[c]) >= 2
    /\ spc[c] = "loop"
    /\ rcall[r] = c /\ Alive(r) /\ FramesOf(r) # <<>>

(***************************************************************************)
(* C22.  In every state of the read loop the utterance buffer is exactly   *)
(* the sequence, in arrival order, of the audio frames the VAD classified  *)
(* as speech since the last dispatch (or since the session started).  A    *)
(* silence frame is never appended: it leaves the buffer as it is, or      *)
(* empty when it closes the utterance.  A speech frame that follows a run  *)
(* of silence frames too short to close the utterance is appended to the   *)
(* same utterance.                                                         *)
(***************************************************************************)
ReadsInLoop(c) == spc[c] = "loop" /\ nread'[c] = nread[c] + 1

C22_BufferIsSpeechSinceDispatch ==
  /\ [](\A c \in Calls : inputAudioBuffer[c] = spoken[c])
  /\ [][\A c \in Calls :
          ReadsInLoop(c) =>
            LET f == lastFrame'[c] IN
            /\ (Classified(f) /\ f.vad = "inactive") =>
                 /\ inputAudioBuffer'[c] \in {inputAudioBuffer[c], <<>>}
                 /\ inputAudioBuffer'[c] # inputAudioBuffer[c] => closed'[c] # closed[c]
            /\ (Classified(f) /\ f.vad = "active") =>
                 /\ inputAudioBuffer'[c] = Append(inputAudioBuffer[c], f.len \div 2)
                 /\ closed'[c] = closed[c]]_vars

\* two speech frames of different lengths with a run of silence frames too
\* short to close between them, then another such run
C22_Witness ==
  \E c \in Calls :
    /\ inputAudioBuffer[c] = <<160, 480>>
    /\ nread[c] = 1 + 1 + 3 + 1 + 2 /\ quiet[c] = 2 /\ silenceCount[c] = 2
    /\ closed[c] = <<>> /\ spc[c] = "loop"

(***************************************************************************)
(* C26.  An error-kind frame read in the read loop is non-fatal and has no *)
(* effect on segmentation: the session stays in the loop with its          *)
(* connection open, the utterance buffer and the silence counter are       *)
(* unchanged, and nothing is dispatched.                                   *)
(***************************************************************************)
C26_ErrorFrameIgnored ==
  [][\A c \in Calls :
       (ReadsInLoop(c) /\ lastFrame'[c].kind = "error")
       => /\ spc'[c] = "loop" /\ connOpen'[c] /\ ~crashed'
          /\ inputAudioBuffer'[c] = inputAudioBuffer[c]
          /\ silenceCount'[c] = silenceCount[c]
          /\ closed'[c] = closed[c] /\ fx'[c] = fx[c]]_vars

\* an error frame arrived while an utterance was accumulating
C26_Witness ==
  \E c \in Calls :
    /\ lastFrame[c].kind = "error" /\ spc[c] = "loop" /\ connOpen[c]
    /\ Len(inputAudioBuffer[c]) = 2 /\ silenceCount[c] = 3

(***************************************************************************)
(* C24.  The gate counts every audio frame of 320 bytes as 20 ms: an       *)
(* utterance of n such speech frames is submitted to transcription exactly *)
(* when n >= 20.                                                           *)
(* Fails: the gate divides the samples by 16000 (main.go:201), so a frame  *)
(* of 320 bytes counts as 10 ms and the utterance passes only from 40      *)
(* frames on.                                                              *)
(***************************************************************************)
WireFrames(u) == \A k \in 1..Len(u) : u[k] = 160

Transcribed(c, u) == \E j \in 1..Len(SttArgs(c)) : SttArgs(c)[j] = u

C24_TwentyFramesPass ==
  \A c \in Calls : \A i \in 1..Len(closed[c]) :
    WireFrames(closed[c][i]) => (Transcribed(c, closed[c][i]) <=> Len(closed[c][i]) >= 20)

(***************************************************************************)
(* C25.  A failure inside one call session ends at most that session:      *)
(* every other running session keeps running.                              *)
(* Fails: a failure of the VAD creation is answered with log.Fatal         *)
(* (main.go:77-82), and a created chat with a nil pointer dereference      *)
(* (main.go:127); both end the process with all its sessions.              *)
(***************************************************************************)
C25_FailureContained ==
  \A c \in Calls : (spc[c] = "loop" /\ connOpen[c]) => ~crashed

(***************************************************************************)
(* C27.  When a call session has ended, a relay still active for that call *)
(* has had its cancellation token fired.                                   *)
(* Fails: the relay's context is derived from context.Background()         *)
(* (main.go:416), and the exit of Handle cancels its own context only.     *)
(***************************************************************************)
C27_SessionEndCancelsRelay ==
  \A r \in Relays : (Alive(r) /\ spc[rcall[r]] = "done") => rcancelled[r]

(***************************************************************************)
(* C23.  The STT and LLM settings fetched at session start are unchanged   *)
(* by every later operation of the session.  Processing an utterance sends *)
(* the fetched STT settings with the language forced to "ru" with its      *)
(* transcription request, one such copy per request, and leaves the        *)
(* session's own settings as fetched.                                      *)
(***************************************************************************)
FetchedBy(c, op) ==
  LET i == CHOOSE i \in 1..Len(fx[c]) : fx[c][i].op = op IN fx[c][i].res

C23_SettingsSnapshotUnchanged ==
  \A c \in Calls :
    SetupFinished(c) =>
      /\ sttSettings[c] = FetchedBy(c, "GetSttSettings")
      /\ llmSettings[c] = FetchedBy(c, "GetLlmSettings")
      /\ Len(sttSent[c]) = Len(SttArgs(c))
      /\ \A i \in 1..Len(sttSent[c]) :
           sttSent[c][i] = [FetchedBy(c, "GetSttSettings") EXCEPT !.Language = "ru"]

\* a transcription request went out with the language "ru" and the session
\* still holds the language "en" it fetched, with the next utterance begun
C23_Witness ==
  \E c \in Calls :
    /\ Len(sttSent[c]) = 1 /\ sttSent[c][1].Language = "ru"
    /\ sttSettings[c].Language = "en"
    /\ spc[c] = "loop" /\ Len(inputAudioBuffer[c]) = 1

(***************************************************************************)
(* C21.  For a relay that is never cancelled, the frames it writes to the  *)
(* call connection are exactly the binary chunks it received, one frame    *)
(* per chunk in the order received.                                        *)
(* Fails as stated: a chunk whose write fails (main.go:469-472) was        *)
(* received and is not on the connection.                                  *)
(***************************************************************************)
C21_WritesEveryChunk ==
  \A r \in Relays :
    (~rcancelled[r] /\ rpc[r] = "done") =>
      FramesOf(r) = [k \in 1..rgot[r] |-> <<r, k>>]

(***************************************************************************)
(* C21, amended.  For a relay that is never cancelled, the frames on the   *)
(* call connection are the binary chunks it received, one frame per chunk  *)
(* in the order received, up to the first chunk whose write fails: that    *)
(* chunk is not written and the relay terminates.  On end_of_audio, a      *)
(* stream close or a stream error the relay terminates with every chunk    *)
(* received written, and a terminated relay writes nothing more.  Other    *)
(* text messages neither stop the relay nor produce a write.               *)
(***************************************************************************)
C21_RelayWritesUntilFailure ==
  /\ [](\A r \in Relays : ~rcancelled[r] => RelayWroteWhatItGot(r))
  /\ [][\A r \in Relays :
          ~rcancelled'[r] =>
            /\ Receive(r, "binary") =>
                 rpc'[r] = "write" /\ FramesOf(r)' = FramesOf(r)
            /\ \A m \in {"end_of_audio", "error"} :
                 Receive(r, m) =>
                   /\ rpc'[r] = "done"
                   /\ FramesOf(r)' = [k \in 1..rgot[r] |-> <<r, k>>]
            /\ \A m \in {"text", "badjson"} :
                 Receive(r, m) =>
                   /\ rpc'[r] = "loop"
                   /\ FramesOf(r)' = FramesOf(r) /\ rgot'[r] = rgot[r]
            /\ (rpc[r] = "write" /\ rpc'[r] = "loop") =>
                 FramesOf(r)' = Append(FramesOf(r), <<r, rgot[r]>>)
            /\ (rpc[r] = "write" /\ rpc'[r] = "done") =>
                 FramesOf(r)' = FramesOf(r)
            /\ rpc[r] = "done" =>
                 rpc'[r] = "done" /\ FramesOf(r)' = FramesOf(r)]_vars

\* a relay that was never cancelled received two chunks, wrote the first,
\* failed to write the second to the open connection, and terminated
C21_Witness ==
  \E r \in Relays :
    /\ ~rcancelled[r] /\ rpc[r] = "done" /\ rsent[r]
    /\ rgot[r] = 2 /\ FramesOf(r) = <<<<r, 1>>>>
    /\ connOpen[rcall[r]]

(***************************************************************************)
(* C28.  After its cancellation token has fired, a relay writes at most    *)
(* one further frame to the call connection, the one whose read or write   *)
(* was pending when the token fired: it never begins a read, and the next  *)
(* time it is at the top of its loop it terminates.                        *)
(***************************************************************************)
C28_CancelledRelayStops ==
  /\ [](\A r \in Relays :
          /\ rlate[r] <= 1
          /\ rlate[r] = 1 => rcancelled[r] /\ rpc[r] \in {"loop", "done"})
  /\ [][\A r \in Relays :
          rcancelled[r] =>
            /\ rpc'[r] = "read" => rpc[r] = "read"
            /\ rpc'[r] = "write" => rpc[r] \in {"read", "write"}
            /\ (rpc[r] = "loop" /\ rpc'[r] # "loop") => rpc'[r] = "done"]_vars

\* a relay was cancelled by the next one while it waited for a message,
\* received a chunk, wrote it, and terminated at the top of its loop
C28_Witness ==
  \E r \in Relays, x \in Relays :
    /\ rcancelled[r] /\ rlate[r] = 1 /\ rpc[r] = "done"
    /\ rgot[r] = 2 /\ FramesOf(r) = <<<<r, 1>>, <<r, 2>>>>
    /\ x = r + 1 /\ Started(x) /\ rcall[x] = rcall[r]

(***************************************************************************)
(* C29.  Every started relay eventually terminates, when each of its       *)
(* blocking calls returns.                                                 *)
(* Fails as stated: a relay that is not cancelled and whose stream goes on *)
(* delivering informational messages stays in its loop (main.go:441-477).  *)
(***************************************************************************)
Terminated(r) == rpc[r] = "done" \/ crashed

C29_EveryRelayTerminates ==
  \A r \in Relays : Started(r) ~> Terminated(r)

(***************************************************************************)
(* C29, amended.  When each of its blocking calls returns, a relay whose   *)
(* cancellation token has fired eventually terminates, after at most one   *)
(* more received message; a relay whose write to the call connection fails *)
(* terminates with that step; a relay that fails to connect or to send its *)
(* request terminates with that step.                                      *)
(***************************************************************************)
C29_CancelledRelayTerminates ==
  /\ \A r \in Relays : (Started(r) /\ rcancelled[r]) ~> Terminated(r)
  /\ [][\A r \in Relays :
          /\ (rcancelled[r] /\ rpc'[r] = "read") => rpc[r] = "read"
          /\ (rpc[r] = "write" /\ rpc'[r] # "write" /\ ~Writes(r)) => rpc'[r] = "done"
          /\ (rpc[r] = "start" /\ rpc'[r] # "start" /\ ~rsent'[r]) => rpc'[r] = "done"]_vars

\* the second relay has cancelled the first, which had received a chunk
\* and written it, and the first has terminated
C29_Witness ==
  \E r \in Relays, x \in Relays :
    /\ rcancelled[r] /\ rpc[r] = "done" /\ rgot[r] = 1 /\ rlate[r] = 0
    /\ x = r + 1 /\ Alive(x) /\ ~rcancelled[x] /\ rgot[x] = 1

(***************************************************************************)
(* C30.  ChatStore.SendMessage called with blank content (empty or white   *)
(* space only), or on a store whose current chat id is blank, returns an   *)
(* error without a call to the chat API or to the model API, and leaves    *)
(* the store's Messages unchanged.                                         *)
(***************************************************************************)
Blank(s) == \A k \in 1..Len(s) : s[k] \in {" ", "\t", "\n", "\r"}

\* a call of SendMessage ends in this step; it was given content
Sent(content) ==
  Len(returned') = Len(returned) + 1 /\ returned'[Len(returned')].content = content

C30_BlankRequestRejected ==
  [][\A content \in Contents :
       (Sent(content) /\ (Blank(content) \/ Blank(CurrentChat))) =>
         /\ returned'[Len(returned')].ret = "error"
         /\ apiLog' = apiLog
         /\ Messages' = Messages]_vars

\* a loaded store was sent white space, which left nothing behind, and then
\* the message "a", which went through
C30_Witness ==
  /\ Len(returned) = 2
  /\ returned[1] = [content |-> <<" ", "\t">>, ret |-> "error"]
  /\ returned[2] = [content |-> <<"a">>, ret |-> "response"]
  /\ Len(apiLog) = 3 /\ apiLog[1] = ChatCall(<<"c">>, "user", <<"a">>)
  /\ Len(Messages) = 4 /\ Messages[3] = StoredMessage("user", <<"a">>)
  /\ Error = ""

(***************************************************************************)
(* C31.  Every call of ChatStore.SendMessage returns a response or an      *)
(* error, and appends to the store's Messages exactly the messages the     *)
(* chat API accepted, in order: its user message iff the user send         *)
(* succeeded, and its assistant message iff also the model returned a      *)
(* reply that is not blank and the assistant send succeeded.               *)
(* Fails: with a nil Model the dereference at api/client.go:404 panics     *)
(* after the user message was appended, so the call returns nothing; and   *)
(* HTTPChatAPI.SendMessage (api/client.go:153-182) never looks at the      *)
(* status of the answer, so the store appends whatever decodes, also when  *)
(* the service refused the message.                                        *)
(***************************************************************************)
acceptedBy(content, o) ==
  LET userPart ==
        IF ~(Blank(content) \/ Blank(CurrentChat)) /\ o.user = "accepted"
          THEN <<StoredMessage("user", content)>> ELSE <<>>
      asstPart ==
        IF /\ ~(Blank(content) \/ Blank(CurrentChat))
           /\ o.user = "accepted" /\ o.llm.ok /\ ~Blank(o.llm.content)
           /\ o.asst = "accepted"
          THEN <<StoredMessage("assistant", TrimSpace(o.llm.content))>> ELSE <<>>
  IN  userPart \o asstPart

C31_MessagesAreTheAcceptedOnes ==
  [][\A content \in Contents, o \in StoreOutcomes :
       SendMessage(content, o) =>
         /\ returned'[Len(returned')].ret \in {"response", "error"}
         /\ Messages' = Messages \o acceptedBy(content, o)]_vars

=============================================================================
